---- MODULE Spec2Model ----
(***************************************************************************)
(* Model of lightcap.Lightcurve (src/lightcap.py): the frame catalog, the  *)
(* aperture configuration, the flux extraction pass (read_apertures) and   *)
(* the differential magnitude computation (differential_magnitude).        *)
(*                                                                         *)
(* Python objects are records tagged by the field k.  Python lists that    *)
(* can be shared between two attributes (the per-reference inner lists of  *)
(* self.reference, which list.copy() copies by reference) live in `heap`   *)
(* and are named by [k |-> "ref"] values.  numpy float64 values are exact  *)
(* rationals, the IEEE specials inf / -inf / nan, or exact symbolic        *)
(* logarithms.  The variable `last` records each call and its outcome: the  *)
(* methods signal a refusal by printing a message and returning, or by an  *)
(* exception raised part-way.                                              *)
(***************************************************************************)
EXTENDS Integers, Sequences, FiniteSets, TLC

\* ------------------------------------------------------------------ bounds

\* Longest frame catalog explored.
MaxFrames == 2

\* Longest list of reference positions passed to set_reference.
MaxRefs == 2

\* Longest sequence of calls made on one Lightcurve.
MaxCalls == 5

\* ------------------------------------------------------- numbers (float64)

RECURSIVE GCD(_, _)
GCD(a, b) == IF b = 0 THEN a ELSE GCD(b, a % b)

Abs(x) == IF x < 0 THEN -x ELSE x

Sgn(x) == IF x < 0 THEN -1 ELSE IF x = 0 THEN 0 ELSE 1

\* The rational n/d (d # 0), in lowest terms with a positive denominator.
Rat(n, d) ==
    LET g == GCD(Abs(n), Abs(d))
        s == IF d < 0 THEN -1 ELSE 1
    IN  [k |-> "rat", n |-> (s * n) \div g, d |-> (s * d) \div g]

Flux(f) == Rat(f, 1)
Zero == Rat(0, 1)
One == Rat(1, 1)
PInf == [k |-> "pinf"]
NInf == [k |-> "ninf"]
NaN == [k |-> "nan"]

\* (-2.5 * log10(n/d)) / r for a rational n/d > 0 other than 1.
MagTerm(n, d, r) == [k |-> "mag", n |-> n, d |-> d, r |-> r]

\* A value the arithmetic below does not analyse further.
Other == [k |-> "other"]

IsNumber(v) == v.k \in {"rat", "mag", "quot", "mag2", "pinf", "ninf", "nan", "other"}
IsListRef(v) == v.k = "ref"

IsZero(v) == v.k = "rat" /\ v.n = 0

\* Sign of a value that is neither nan nor zero.
Sign(v) ==
    CASE v.k = "rat" -> Sgn(v.n)
      [] v.k = "mag" -> IF v.n < v.d THEN 1 ELSE -1
      [] v.k = "pinf" -> 1
      [] v.k = "ninf" -> -1
      [] v.k = "quot" -> v.s
      [] OTHER -> 0

RECURSIVE Pow(_, _)
Pow(b, e) == IF e = 0 THEN 1 ELSE b * Pow(b, e - 1)

\* k with m = 10^k for m >= 1, or -1 when m is no power of ten.
RECURSIVE Log10Exact(_)
Log10Exact(m) ==
    IF m = 1 THEN 0
    ELSE IF m % 10 # 0 THEN -1
    ELSE LET k == Log10Exact(m \div 10) IN IF k = -1 THEN -1 ELSE k + 1

\* The exact rational value of a mag term when it has one: twice the value,
\* as a pair <<TRUE, numerator, denominator>>, else <<FALSE, 0, 1>>.
MagAsRat(v) ==
    LET kn == Log10Exact(v.n)
        kd == Log10Exact(v.d)
    IN  IF v.d = 1 /\ kn > 0 THEN <<TRUE, -5 * kn, 2 * v.r>>
        ELSE IF v.n = 1 /\ kd > 0 THEN <<TRUE, 5 * kd, 2 * v.r>>
        ELSE <<FALSE, 0, 1>>

\* Whether two finite non-zero values are the same real number.
SameReal(a, b) ==
    CASE a.k = "rat" /\ b.k = "rat" -> a = b
      [] a.k = "mag" /\ b.k = "mag" ->
            \* log(qa)/ra = log(qb)/rb  iff  qa^rb = qb^ra
            Pow(a.n, b.r) * Pow(b.d, a.r) = Pow(b.n, a.r) * Pow(a.d, b.r)
      [] a.k = "rat" /\ b.k = "mag" ->
            LET q == MagAsRat(b) IN q[1] /\ a = Rat(q[2], q[3])
      [] a.k = "mag" /\ b.k = "rat" ->
            LET q == MagAsRat(a) IN q[1] /\ b = Rat(q[2], q[3])
      [] OTHER -> a = b

\* a / b on numpy float64 scalars: a zero divisor gives inf or nan with a
\* warning, never an exception.
Div(a, b) ==
    CASE a.k = "nan" \/ b.k = "nan" -> NaN
      [] a.k = "other" \/ b.k = "other" -> Other
      [] a.k \in {"pinf", "ninf"} /\ b.k \in {"pinf", "ninf"} -> NaN
      [] a.k \in {"pinf", "ninf"} ->
            IF IsZero(b) \/ Sign(b) = 1 THEN a
            ELSE IF Sign(b) = -1 THEN (IF a.k = "pinf" THEN NInf ELSE PInf)
            ELSE Other
      [] b.k \in {"pinf", "ninf"} -> Zero
      [] IsZero(b) ->
            IF IsZero(a) THEN NaN
            ELSE IF Sign(a) = 1 THEN PInf
            ELSE IF Sign(a) = -1 THEN NInf
            ELSE Other
      [] IsZero(a) -> Zero
      [] a.k = "rat" /\ b.k = "rat" -> Rat(a.n * b.d, a.d * b.n)
      [] a.k \in {"rat", "mag"} /\ b.k \in {"rat", "mag"} ->
            IF SameReal(a, b) THEN One
            ELSE [k |-> "quot", x |-> a, y |-> b, s |-> Sign(a) * Sign(b)]
      [] OTHER -> Other

\* (-2.5) * np.log10(x): log10 of a negative number is nan, of zero -inf.
Mag(x) ==
    CASE x.k = "nan" -> NaN
      [] x.k = "other" -> Other
      [] x.k = "pinf" -> NInf
      [] x.k = "ninf" -> NaN
      [] x.k = "rat" ->
            IF x.n < 0 THEN NaN
            ELSE IF x.n = 0 THEN PInf
            ELSE IF x.n = x.d THEN Zero
            ELSE MagTerm(x.n, x.d, 1)
      [] x.k = "quot" ->
            IF x.s < 0 THEN NaN ELSE [k |-> "mag2", x |-> x.x, y |-> x.y]
      [] OTHER -> Other

\* a + b.
Add(a, b) ==
    CASE a.k = "nan" \/ b.k = "nan" -> NaN
      [] a.k = "pinf" -> IF b.k = "ninf" THEN NaN ELSE PInf
      [] a.k = "ninf" -> IF b.k = "pinf" THEN NaN ELSE NInf
      [] b.k \in {"pinf", "ninf"} -> b
      [] IsZero(a) -> b
      [] IsZero(b) -> a
      [] a.k = "rat" /\ b.k = "rat" -> Rat(a.n * b.d + b.n * a.d, a.d * b.d)
      [] a.k = "mag" /\ b.k = "mag" /\ a.r = 1 /\ b.r = 1 ->
            \* log(qa) + log(qb) = log(qa * qb)
            Mag(Rat(a.n * b.n, a.d * b.d))
      [] OTHER -> Other

\* sum(values): the left fold from the integer 0.
RECURSIVE SumFrom(_, _, _)
SumFrom(values, i, acc) ==
    IF i > Len(values) THEN acc ELSE SumFrom(values, i + 1, Add(acc, values[i]))

PySum(values) ==
    IF \E i \in 1..Len(values) : values[i].k = "nan" THEN NaN
    ELSE SumFrom(values, 1, Zero)

\* a / n for a positive integer n.
DivInt(a, n) ==
    CASE a.k = "rat" -> Rat(a.n, a.d * n)
      [] a.k = "mag" /\ a.r = 1 -> MagTerm(a.n, a.d, n)
      [] a.k \in {"pinf", "ninf", "nan"} -> a
      [] OTHER -> Other

\* ------------------------------------------------------------ Python values

None_ == [k |-> "None"]
Tup(s) == [k |-> "tuple", v |-> s]
Lst(s) == [k |-> "list", v |-> s]
ListRef(id) == [k |-> "ref", id |-> id]

\* An attribute that has not been assigned yet is <<>>, an assigned one <<value>>.
Unset == <<>>
Some(v) == <<v>>

\* Pixel positions at which the images of the catalog hold a star.
PosA == <<1, 1>>
PosB == <<2, 2>>
ValidPos == {PosA, PosB}

\* The images on disk, in the order of their sorted paths: the summed flux an
\* aperture at each position yields (unequal fluxes, a zero and a negative
\* sum, equal fluxes, and so on in turn).
Image(i) ==
    [p \in ValidPos |->
        CASE i % 3 = 1 -> IF p = PosA THEN 1 ELSE 3
          [] i % 3 = 2 -> IF p = PosA THEN 0 ELSE -1
          [] OTHER -> 2]

RECURSIVE SeqsUpTo(_, _)
SeqsUpTo(S, n) ==
    IF n = 0 THEN {<<>>}
    ELSE LET shorter == SeqsUpTo(S, n - 1)
         IN  shorter \cup {Append(s, x) : s \in {t \in shorter : Len(t) = n - 1}, x \in S}

\* Arguments of the calls.  BadTuple has one coordinate; the lists are every
\* list of one to MaxRefs valid positions, the empty list, and lists whose
\* first, only or later entry is malformed.
BadTuple == Tup(<<1>>)
TupleArgs == {Tup(PosA), Tup(PosB), BadTuple}
ValidLists == {Lst(s) : s \in SeqsUpTo({Tup(PosA), Tup(PosB)}, MaxRefs) \ {<<>>}}
MalformedLists ==
    {Lst(<<>>), Lst(<<BadTuple>>), Lst(<<BadTuple, Tup(PosA)>>),
     Lst(<<Tup(PosA), BadTuple>>)}
ListArgs == ValidLists \cup MalformedLists
PositionArgs == TupleArgs \cup ListArgs
TargetArgs == TupleArgs \cup {Lst(<<Tup(PosA)>>)}

\* Every radius passed is one photutils accepts, and the name is left at its
\* default.
Radii == {1}
NameArgs == {None_}
Methods == {"average", "median"}

\* ------------------------------------------------------------------- state

VARIABLES
    fits_list,              \* self.fits_list: the paths of the catalog
    hdu_list,               \* self.hdu_list: the images, in catalog order
    jd_axis,                \* self.jd_axis: the JD header of each image
    target,                 \* self.target: the target flux list
    target_pos,             \* self.target_pos
    target_aperture,        \* self.target_aperture (an attribute set on demand)
    target_name,            \* self.target_name (set on demand)
    reference,              \* self.reference: the outer reference list
    heap,                   \* the inner lists self.reference can hold
    reference_pos,          \* self.reference_pos
    reference_aperture,     \* self.reference_aperture (set on demand)
    reference_name,         \* self.reference_name (set on demand)
    number_of_references,   \* self.number_of_references (set on demand)
    target_magnitude,       \* self.target_magnitude (set on demand)
    reference_magnitude,    \* self.reference_magnitude (set on demand)
    last,                   \* the last call and how it ended
    calls,                  \* number of calls made so far
    phase,                  \* history: the state of the documented state machine
    returned                \* history: phase fell back from Extracted or Computed

vars == <<fits_list, hdu_list, jd_axis, target, target_pos, target_aperture, target_name, reference,
          heap, reference_pos, reference_aperture, reference_name,
          number_of_references, target_magnitude, reference_magnitude, last, calls,
          phase, returned>>

\* A finished call: the method, its arguments, and how it ended ("ok", the
\* message it printed before returning, or the exception it raised).
Outcome(op, args, res) == [op |-> op, args |-> args, res |-> res]
ConfigArgs(position, radius, name) ==
    [position |-> position, radius |-> radius, name |-> name]

\* ---------------------------------------------------------------- the heap

\* The inner lists an outer list refers to.
RefsOf(outer) == {outer[i].id : i \in {j \in 1..Len(outer) : IsListRef(outer[j])}}

OptRefs(opt) == IF opt = Unset THEN {} ELSE RefsOf(opt[1])

\* What remains of heap h once the lists no attribute reaches are collected.
Collect(h, ref, refmag) ==
    [id \in (RefsOf(ref) \cup OptRefs(refmag)) \cap DOMAIN h |-> h[id]]

\* The n smallest list identities not in `used`.
RECURSIVE Fresh(_, _)
Fresh(used, n) ==
    IF n = 0 THEN <<>>
    ELSE LET m == CHOOSE x \in 0..Cardinality(used) :
                     /\ x \notin used
                     /\ \A y \in 0..Cardinality(used) : y \notin used => x <= y
         IN  <<m>> \o Fresh(used \cup {m}, n - 1)

\* ------------------------------------------------------- photutils stand-ins

\* CircularAperture(position, r=radius): raises ValueError unless r is positive
\* and the positions are one pair or a list of pairs.
ApertureOk(position, radius) ==
    /\ radius > 0
    /\ \/ position.k = "tuple" /\ position.v \in ValidPos
       \/ /\ position.k = "list"
          /\ Len(position.v) > 0
          /\ \A i \in 1..Len(position.v) : position.v[i].v \in ValidPos

CircularAperture(position, radius) ==
    [pos |-> IF position.k = "tuple" THEN <<position.v>>
             ELSE [i \in 1..Len(position.v) |-> position.v[i].v],
     r |-> radius]

\* aperture_photometry(image, aperture): one row per aperture position, whose
\* column 3 is the summed flux.
aperture_photometry(image, aperture) ==
    [i \in 1..Len(aperture.pos) |-> Flux(image[aperture.pos[i]])]

\* ------------------------------------------------------------------ __init__

\* The path of a frame is the string of digits that names it; FitsPath(i) is
\* the i-th path on disk in ascending string order ("1", "10", "2", "20", ...).
FitsPath(i) == IF i % 2 = 1 THEN <<(i + 1) \div 2>> ELSE <<i \div 2, 0>>

\* str < str: the first differing character decides, a proper prefix is less.
RECURSIVE PathLess(_, _)
PathLess(a, b) ==
    IF b = <<>> THEN FALSE
    ELSE IF a = <<>> THEN TRUE
    ELSE IF Head(a) # Head(b) THEN Head(a) < Head(b)
    ELSE PathLess(Tail(a), Tail(b))

\* fits.open(path)[0]: the image stored under a path, and its JD header (the
\* frame number the path spells).
fits_open(path) == Image(IF Len(path) = 1 THEN 2 * path[1] - 1 ELSE 2 * path[1])
JD(path) == IF Len(path) = 1 THEN path[1] ELSE 10 * path[1]

\* glob.glob(fits_path): the first n paths on disk, for any n, in any order.
Listings ==
    {s \in SeqsUpTo({FitsPath(i) : i \in 1..MaxFrames}, MaxFrames) :
        {s[i] : i \in 1..Len(s)} = {FitsPath(i) : i \in 1..Len(s)}}

\* A list left in the order glob returned it.
Unsorted(s) == s

\* list.sort(): ascending, by insertion.
RECURSIVE Insert(_, _)
Insert(s, x) ==
    IF s = <<>> THEN <<x>>
    ELSE IF PathLess(x, Head(s)) THEN <<x>> \o s
    ELSE <<Head(s)>> \o Insert(Tail(s), x)

RECURSIVE SortFrom(_, _, _)
SortFrom(s, i, acc) ==
    IF i > Len(s) THEN acc ELSE SortFrom(s, i + 1, Insert(acc, s[i]))

sort(s) == SortFrom(s, 1, <<>>)

\* The path argument, character by character: a glob pattern and a directory.
PathArgs == {<<"d", "/", "*">>, <<"d">>}
HasWildcard(path) == \E i \in 1..Len(path) : path[i] = "*"

\* Lines 28-49.  Line 31 reads self.path, which no line assigns: a path with
\* no "*" raises AttributeError before any attribute exists, and no object is
\* returned.
Lightcurve(path, listing) ==
    /\ target = <<>>
    /\ target_pos = None_
    /\ target_aperture = Unset
    /\ target_name = Unset
    /\ reference = <<>>
    /\ heap = [id \in {} |-> <<>>]
    /\ reference_pos = None_
    /\ reference_aperture = Unset
    /\ reference_name = Unset
    /\ number_of_references = Unset
    /\ target_magnitude = Unset
    /\ reference_magnitude = Unset
    /\ calls = 0
    /\ phase = "Uninitialized"
    /\ returned = FALSE
    /\ IF HasWildcard(path)
       THEN /\ fits_list = sort(listing)
            /\ hdu_list = [i \in 1..Len(listing) |-> fits_open(fits_list[i])]
            /\ jd_axis = [i \in 1..Len(listing) |-> JD(fits_list[i])]
            /\ last = Outcome("__init__", [path |-> path], "ok")
       ELSE /\ fits_list = <<>>
            /\ hdu_list = <<>>
            /\ jd_axis = <<>>
            /\ last = Outcome("__init__", [path |-> path], "AttributeError")

Init == \E path \in PathArgs, listing \in Listings : Lightcurve(path, listing)

\* A constructor that raised returned no object to call a method on.
Constructed == ~ (last.op = "__init__" /\ last.res # "ok")

\* ---------------------------------------------------------------- set_target

\* A check of the type that forgets the length.
TargetPositionAnyTuple(position) == position.k = "tuple"

\* Line 65: type(position) == tuple and len(position) == 2.
TargetPositionOk(position) == position.k = "tuple" /\ Len(position.v) = 2

set_target(position, radius, name) ==
    IF TargetPositionOk(position)
    THEN /\ target_pos' = position
         /\ IF ApertureOk(position, radius)
            THEN /\ target_aperture' = Some(CircularAperture(position, radius))
                 /\ target_name' = IF name.k = "str" THEN Some(name.v) ELSE target_name
                 /\ target' = <<>>
                 /\ last' = Outcome("set_target", ConfigArgs(position, radius, name), "ok")
            ELSE /\ last' = Outcome("set_target", ConfigArgs(position, radius, name), "ValueError")
                 /\ UNCHANGED <<target_aperture, target_name, target>>
         /\ UNCHANGED <<fits_list, hdu_list, jd_axis, reference, heap, reference_pos, reference_aperture,
                        reference_name, number_of_references, target_magnitude,
                        reference_magnitude>>
    ELSE /\ last' = Outcome("set_target", ConfigArgs(position, radius, name), "print_position")
         /\ UNCHANGED <<fits_list, hdu_list, jd_axis, target, target_pos, target_aperture, target_name,
                        reference, heap, reference_pos, reference_aperture,
                        reference_name, number_of_references, target_magnitude,
                        reference_magnitude>>

\* ------------------------------------------------------------- set_reference

\* The branch of set_reference a position takes.
ReferenceBranch(position) ==
    IF position.k = "tuple" /\ Len(position.v) = 2 THEN "tuple"
    ELSE IF position.k = "list"
         THEN IF Len(position.v) = 0 THEN "IndexError"
              ELSE IF Len(position.v[1].v) = 2 THEN "list" ELSE "print"
         ELSE "print"

set_reference(position, radius, name) ==
    LET branch == ReferenceBranch(position)
        n == IF branch = "tuple" THEN 1 ELSE Len(position.v)
        ids == Fresh(OptRefs(reference_magnitude), n)
        inner == [i \in 1..n |-> ListRef(ids[i])]
        fresh == [id \in {ids[i] : i \in 1..n} |-> <<>>]
    IN  IF branch \in {"tuple", "list"}
        THEN /\ number_of_references' = Some(n)
             /\ reference_pos' = position
             /\ IF ApertureOk(position, radius)
                THEN /\ reference_aperture' = Some(CircularAperture(position, radius))
                     /\ reference_name' =
                            IF name.k \in {"str", "list"} THEN Some(name.v)
                            ELSE reference_name
                     /\ reference' = IF branch = "tuple" THEN <<>> ELSE inner
                     /\ heap' = IF branch = "tuple"
                                THEN Collect(heap, <<>>, reference_magnitude)
                                ELSE Collect(heap, <<>>, reference_magnitude) @@ fresh
                     /\ last' = Outcome("set_reference", ConfigArgs(position, radius, name), "ok")
                ELSE /\ last' = Outcome("set_reference", ConfigArgs(position, radius, name), "ValueError")
                     /\ UNCHANGED <<reference_aperture, reference_name, reference, heap>>
             /\ UNCHANGED <<fits_list, hdu_list, jd_axis, target, target_pos, target_aperture, target_name,
                            target_magnitude, reference_magnitude>>
        ELSE /\ last' = Outcome("set_reference", ConfigArgs(position, radius, name),
                                IF branch = "print" THEN "print_position" ELSE branch)
             /\ UNCHANGED <<fits_list, hdu_list, jd_axis, target, target_pos, target_aperture, target_name,
                            reference, heap, reference_pos, reference_aperture,
                            reference_name, number_of_references, target_magnitude,
                            reference_magnitude>>

\* ------------------------------------------------------------ read_apertures

\* State of a running pass: the target list, the outer reference list, the
\* heap, and res = "ok" until a statement raises.
Pass(t, r, h, res) == [target |-> t, reference |-> r, heap |-> h, res |-> res]

\* Lines 135-136: for r in range(n): self.reference[r].append(phot_table[r][3]).
RECURSIVE AppendReferences(_, _, _, _, _)
AppendReferences(r, n, ref, h, table) ==
    IF r > n THEN [heap |-> h, res |-> "ok"]
    ELSE IF ~IsListRef(ref[r]) THEN [heap |-> h, res |-> "AttributeError"]
    ELSE IF r > Len(table) THEN [heap |-> h, res |-> "IndexError"]
    ELSE AppendReferences(r + 1, n, ref,
             [h EXCEPT ![ref[r].id] = Append(@, table[r])], table)

\* Lines 128-136 for frame i.  failCall names the photometry call of the pass
\* that raises (0: none): call 2i-1 reads the target of frame i, call 2i its
\* references.
ReadFrame(i, st, failCall) ==
    IF target_aperture = Unset THEN [st EXCEPT !.res = "AttributeError"]
    ELSE IF failCall = 2 * i - 1 THEN [st EXCEPT !.res = "PhotometryError"]
    ELSE
    LET target_phot_table == aperture_photometry(hdu_list[i], target_aperture[1])
        st1 == [st EXCEPT !.target = Append(@, target_phot_table[1])]
    IN  IF reference_aperture = Unset THEN [st1 EXCEPT !.res = "AttributeError"]
        ELSE IF failCall = 2 * i THEN [st1 EXCEPT !.res = "PhotometryError"]
        ELSE
        LET phot_table == aperture_photometry(hdu_list[i], reference_aperture[1])
        IN  IF number_of_references[1] = 1
            THEN [st1 EXCEPT !.reference = Append(@, phot_table[1])]
            ELSE IF number_of_references[1] > 1
            THEN LET a == AppendReferences(1, Len(st1.reference), st1.reference,
                                           st1.heap, phot_table)
                 IN  [st1 EXCEPT !.heap = a.heap, !.res = a.res]
            ELSE st1

\* Line 127: for i in self.hdu_list.
RECURSIVE ReadFrames(_, _, _)
ReadFrames(i, st, failCall) ==
    IF i > Len(hdu_list) \/ st.res # "ok" THEN st
    ELSE ReadFrames(i + 1, ReadFrame(i, st, failCall), failCall)

read_apertures(failCall) ==
    IF target_pos = None_ \/ reference_pos = None_
    THEN /\ failCall = 0
         /\ last' = Outcome("read_apertures", [fail |-> failCall], "print_configure")
         /\ UNCHANGED <<fits_list, hdu_list, jd_axis, target, target_pos, target_aperture, target_name,
                        reference, heap, reference_pos, reference_aperture,
                        reference_name, number_of_references, target_magnitude,
                        reference_magnitude>>
    ELSE IF target # <<>>
    THEN /\ failCall = 0
         /\ last' = Outcome("read_apertures", [fail |-> failCall], "print_already")
         /\ UNCHANGED <<fits_list, hdu_list, jd_axis, target, target_pos, target_aperture, target_name,
                        reference, heap, reference_pos, reference_aperture,
                        reference_name, number_of_references, target_magnitude,
                        reference_magnitude>>
    ELSE LET st == ReadFrames(1, Pass(target, reference, heap, "ok"), failCall)
         IN  /\ failCall # 0 => st.res = "PhotometryError"
             /\ target' = st.target
             /\ reference' = st.reference
             /\ heap' = st.heap
             /\ last' = Outcome("read_apertures", [fail |-> failCall], st.res)
             /\ UNCHANGED <<fits_list, hdu_list, jd_axis, target_pos, target_aperture, target_name,
                            reference_pos, reference_aperture, reference_name,
                            number_of_references, target_magnitude,
                            reference_magnitude>>

\* ---------------------------------------------------- differential_magnitude

\* State of a running computation: the two local lists, the heap, and res.
Comp(t, r, h, res) ==
    [target_diff_mag |-> t, reference_diff_mag |-> r, heap |-> h, res |-> res]

\* Lines 157-158 for frame i (one reference).
SingleFrame(i, st) ==
    IF i > Len(reference) THEN [st EXCEPT !.res = "IndexError"]
    ELSE IF IsListRef(reference[i]) THEN [st EXCEPT !.res = "TypeError"]
    ELSE [st EXCEPT
            !.target_diff_mag[i] = Mag(Div(target[i], reference[i])),
            !.reference_diff_mag[i] = Mag(Div(reference[i], reference[i]))]

\* Lines 164-165: values.append(self.reference[r][i]) for every reference r.
RECURSIVE FrameValues(_, _, _, _)
FrameValues(r, i, h, values) ==
    IF r > Len(reference) THEN [values |-> values, res |-> "ok"]
    ELSE IF ~IsListRef(reference[r]) THEN [values |-> values, res |-> "IndexError"]
    ELSE IF i > Len(h[reference[r].id]) THEN [values |-> values, res |-> "IndexError"]
    ELSE FrameValues(r + 1, i, h, Append(values, h[reference[r].id][i]))

\* Lines 170-171: reference_diff_mag[r][i] = ... for every reference r.  The
\* inner lists of reference_diff_mag are those of self.reference (list.copy()
\* is shallow), so the assignment writes the heap.
RECURSIVE StoreReferences(_, _, _, _, _)
StoreReferences(r, i, rdm, h, avg_value) ==
    IF r > Len(reference) THEN h
    ELSE StoreReferences(r + 1, i, rdm,
             [h EXCEPT ![rdm[r].id][i] = Mag(Div(h[reference[r].id][i], avg_value))],
             avg_value)

\* Lines 162-171 for frame i (several references).
MultiFrame(i, st) ==
    LET fv == FrameValues(1, i, st.heap, <<>>)
    IN  IF fv.res # "ok" THEN [st EXCEPT !.res = fv.res]
        ELSE IF Len(fv.values) = 0 THEN [st EXCEPT !.res = "ZeroDivisionError"]
        ELSE LET avg_value == DivInt(PySum(fv.values), Len(fv.values))
             IN  [st EXCEPT
                    !.target_diff_mag[i] = Mag(Div(target[i], avg_value)),
                    !.heap = StoreReferences(1, i, st.reference_diff_mag, st.heap,
                                             avg_value)]

\* Lines 156 and 161: for i in range(len(self.target)).
RECURSIVE ComputeFrames(_, _, _)
ComputeFrames(i, st, single) ==
    IF i > Len(target) \/ st.res # "ok" THEN st
    ELSE ComputeFrames(i + 1, IF single THEN SingleFrame(i, st) ELSE MultiFrame(i, st),
                       single)

\* No check of the method at all.
MethodUnchecked(method) == TRUE

\* Line 148: method == 'average'.
MethodIsAverage(method) == method = "average"

differential_magnitude(method) ==
    LET st0 == Comp(target, reference, heap, "ok")
        st == IF number_of_references = Unset THEN [st0 EXCEPT !.res = "AttributeError"]
              ELSE IF number_of_references[1] = 1 THEN ComputeFrames(1, st0, TRUE)
              ELSE IF number_of_references[1] > 1 THEN ComputeFrames(1, st0, FALSE)
              ELSE st0
    IN  IF MethodIsAverage(method)
        THEN /\ IF st.res = "ok"
                THEN /\ target_magnitude' = Some(st.target_diff_mag)
                     /\ reference_magnitude' = Some(st.reference_diff_mag)
                ELSE UNCHANGED <<target_magnitude, reference_magnitude>>
             /\ heap' = Collect(st.heap, reference, reference_magnitude')
             /\ last' = Outcome("differential_magnitude", [method |-> method], st.res)
             /\ UNCHANGED <<fits_list, hdu_list, jd_axis, target, target_pos, target_aperture, target_name,
                            reference, reference_pos, reference_aperture,
                            reference_name, number_of_references>>
        ELSE /\ last' = Outcome("differential_magnitude", [method |-> method], "UnboundLocalError")
             /\ UNCHANGED <<fits_list, hdu_list, jd_axis, target, target_pos, target_aperture, target_name,
                            reference, heap, reference_pos, reference_aperture,
                            reference_name, number_of_references, target_magnitude,
                            reference_magnitude>>

\* ------------------------------------------------------------ specification

SetTarget == \E p \in TargetArgs, r \in Radii, nm \in NameArgs : set_target(p, r, nm)
SetReference ==
    \E p \in PositionArgs, r \in Radii, nm \in NameArgs : set_reference(p, r, nm)
ReadApertures == read_apertures(0)
ReadAperturesFailing == \E c \in 1..(2 * Len(hdu_list)) : read_apertures(c)
DifferentialMagnitude == \E m \in Methods : differential_magnitude(m)

\* The documented state machine Uninitialized -> Configured -> Extracted ->
\* Computed, driven by the calls that succeed: a history of the run, read by no
\* method.
PhaseAfter(done) ==
    CASE done.res # "ok" -> phase
      [] done.op \in {"set_target", "set_reference"} ->
            IF target_aperture' # Unset /\ reference_aperture' # Unset
            THEN "Configured" ELSE "Uninitialized"
      [] done.op = "read_apertures" -> "Extracted"
      [] done.op = "differential_magnitude" ->
            IF phase \in {"Extracted", "Computed"} THEN "Computed" ELSE phase
      [] OTHER -> phase

ReturnedAfter(done) ==
    CASE done.res # "ok" -> returned
      [] done.op \in {"set_target", "set_reference"} ->
            returned \/ phase \in {"Extracted", "Computed"}
      [] done.op = "read_apertures" -> FALSE
      [] OTHER -> returned

\* One more call, while the model's budget of calls lasts.
Call(op) ==
    /\ Constructed
    /\ calls < MaxCalls
    /\ calls' = calls + 1
    /\ op
    /\ phase' = PhaseAfter(last')
    /\ returned' = ReturnedAfter(last')

Next ==
    \/ Call(SetTarget)
    \/ Call(SetReference)
    \/ Call(ReadApertures)
    \/ Call(ReadAperturesFailing)
    \/ Call(DifferentialMagnitude)

Spec == Init /\ [][Next]_vars

\* The calls in which every aperture_photometry call returns.
NextNoFail ==
    \/ Call(SetTarget)
    \/ Call(SetReference)
    \/ Call(ReadApertures)
    \/ Call(DifferentialMagnitude)

SpecNoFail == Init /\ [][NextNoFail]_vars

\* No stored value is one the arithmetic left unanalysed.
Analysed ==
    /\ \A id \in DOMAIN heap : \A i \in 1..Len(heap[id]) : heap[id][i].k # "other"
    /\ target_magnitude # Unset =>
          \A i \in 1..Len(target_magnitude[1]) : target_magnitude[1][i].k # "other"
    /\ reference_magnitude # Unset =>
          \A i \in 1..Len(reference_magnitude[1]) : reference_magnitude[1][i].k # "other"

\* ------------------------------------------------------- reading the state

\* This step is a call of the method op.
Step(op) == calls' = calls + 1 /\ last'.op = op

\* The reference holds no flux value: the outer list is empty, or holds only
\* empty inner lists.
NoReferenceFlux ==
    \A i \in 1..Len(reference) :
        IsListRef(reference[i]) /\ heap[reference[i].id] = <<>>

\* The stored apertures are the ones the stored positions describe: the last
\* set_target and the last set_reference both ran to their end.
ValidConfiguration ==
    /\ target_pos # None_ /\ reference_pos # None_
    /\ target_aperture # Unset /\ reference_aperture # Unset
    /\ ApertureOk(target_pos, target_aperture[1].r)
    /\ ApertureOk(reference_pos, reference_aperture[1].r)
    /\ target_aperture[1] = CircularAperture(target_pos, target_aperture[1].r)
    /\ reference_aperture[1] = CircularAperture(reference_pos, reference_aperture[1].r)

\* The target series and every reference series hold one value per frame.
FluxComplete ==
    /\ Len(target) = Len(hdu_list)
    /\ \A i \in 1..Len(reference) :
          IF IsListRef(reference[i])
          THEN Len(heap[reference[i].id]) = Len(hdu_list)
          ELSE Len(reference) = Len(hdu_list)

\* An outer list with every inner list replaced by its content.
Deref(outer, h) ==
    [i \in 1..Len(outer) |->
        IF IsListRef(outer[i]) THEN [k |-> "list", v |-> h[outer[i].id]] ELSE outer[i]]

\* The stored reference magnitude series, by value.
ReferenceMagnitudeValues ==
    IF reference_magnitude = Unset THEN Unset
    ELSE Some(Deref(reference_magnitude[1], heap))

\* The reference flux series, by value.
ReferenceFluxValues == Deref(reference, heap)

\* A position with exactly two coordinates.
ExactlyTwoCoordinates(position) == position.k = "tuple" /\ Len(position.v) = 2

\* A list of positions that is empty or has an entry without two coordinates.
MalformedList(position) ==
    /\ position.k = "list"
    /\ \/ Len(position.v) = 0
       \/ \E i \in 1..Len(position.v) : ~ExactlyTwoCoordinates(position.v[i])

\* ------------------------------------------------------------------ claims

\* C1: after a successful extraction, a successful set_target and a successful
\* set_reference each leave the target flux and every reference flux empty.
C1_ReconfigureInvalidatesAll ==
    [][(/\ phase \in {"Extracted", "Computed"}
        /\ Step("set_target") \/ Step("set_reference")
        /\ last'.res = "ok")
       => (target' = <<>> /\ NoReferenceFlux')]_vars

\* C2: whenever read_apertures has just succeeded on a valid configuration,
\* the target series and every reference series hold exactly one value per
\* frame of the catalog.
C2_FluxCompleteAfterExtract ==
    (last.op = "read_apertures" /\ last.res = "ok" /\ ValidConfiguration)
        => FluxComplete

\* C3: a read_apertures call made after a successful one, with no set_target or
\* set_reference in between, is refused as a re-extraction and changes no
\* flux, whatever the length of the catalog.
C3_ReExtractionRefused ==
    [][(/\ phase \in {"Extracted", "Computed"}
        /\ Step("read_apertures"))
       => (/\ last'.res = "print_already"
           /\ target' = target
           /\ ReferenceFluxValues' = ReferenceFluxValues)]_vars

\* C4: once a successful set_target or set_reference has taken the object from
\* Extracted or Computed back to Configured, the next read_apertures is
\* accepted and extracts every frame, and differential_magnitude is refused
\* until it has.
C4_ReconfigureReturnsToConfigured ==
    [][/\ (/\ phase = "Configured" /\ returned /\ ValidConfiguration
           /\ Step("read_apertures") /\ last'.args.fail = 0)
          => (last'.res = "ok" /\ FluxComplete')
       /\ (/\ phase = "Configured" /\ returned
           /\ Step("differential_magnitude"))
          => last'.res # "ok"]_vars

\* C5: differential_magnitude called while no extraction has succeeded in the
\* current configuration fails and stores no magnitude series.
C5_ComputeBeforeExtractFails ==
    [][(/\ phase \in {"Uninitialized", "Configured"}
        /\ Step("differential_magnitude"))
       => (/\ last'.res # "ok"
           /\ target_magnitude' = target_magnitude
           /\ reference_magnitude' = reference_magnitude)]_vars

\* C6: differential_magnitude('average') called again right after it succeeded
\* on extracted flux succeeds and yields the same target and reference
\* magnitude series.
C6_RecomputeYieldsSame ==
    [][(/\ phase = "Computed"
        /\ last.op = "differential_magnitude" /\ last.res = "ok"
        /\ Step("differential_magnitude") /\ last'.args.method = "average")
       => (/\ last'.res = "ok"
           /\ target_magnitude' = target_magnitude
           /\ ReferenceMagnitudeValues' = ReferenceMagnitudeValues)]_vars

\* C7: a read_apertures pass in which a photometry call fails leaves the target
\* flux and every reference flux empty.
C7_FailedExtractionLeavesNothing ==
    [][(Step("read_apertures") /\ last'.res = "PhotometryError")
       => (target' = <<>> /\ NoReferenceFlux')]_vars

C10_MalformedListRejected ==
    [][(Step("set_reference") /\ MalformedList(last'.args.position))
       => (/\ last'.res \in {"print_position", "IndexError", "ValueError"}
           /\ reference_pos' = reference_pos
           /\ number_of_references' = number_of_references
           /\ ReferenceFluxValues' = ReferenceFluxValues)]_vars

\* Every flux value held: the target's, and the reference's whether they sit
\* in the outer list or in an inner list.
FluxValues ==
    {target[i] : i \in 1..Len(target)}
    \cup {reference[i] : i \in {j \in 1..Len(reference) : IsNumber(reference[j])}}
    \cup UNION {{heap[id][i] : i \in 1..Len(heap[id])} : id \in RefsOf(reference)}

Positive(v) == v.k = "rat" /\ v.n > 0

\* The reference flux is one inner list per reference, each with a value for
\* every frame.
ReferencePerStar ==
    /\ \A r \in 1..Len(reference) : IsListRef(reference[r])
    /\ \A id \in RefsOf(reference) : Len(heap[id]) >= Len(hdu_list)

\* C11: after a successful read_apertures on a valid configuration the
\* reference flux is a flat list of one number per frame when the reference
\* count is 1 (set as one position or as a list of one position), and one list
\* per reference, each of one number per frame, when the count is above 1.
C11_ReferenceShapeByCount ==
    (last.op = "read_apertures" /\ last.res = "ok" /\ ValidConfiguration)
        => IF number_of_references = Some(1)
           THEN /\ Len(reference) = Len(hdu_list)
                /\ \A i \in 1..Len(reference) : IsNumber(reference[i])
           ELSE /\ Some(Len(reference)) = number_of_references
                /\ \A r \in 1..Len(reference) :
                      /\ IsListRef(reference[r])
                      /\ Len(heap[reference[r].id]) = Len(hdu_list)

\* C12: differential_magnitude('average') on freshly extracted flux of which
\* some value is zero or negative fails, and stores no magnitude series.
C12_NonPositiveFluxFails ==
    [][(/\ phase = "Extracted" /\ ValidConfiguration
        /\ \E v \in FluxValues : ~Positive(v)
        /\ Step("differential_magnitude") /\ last'.args.method = "average")
       => (/\ last'.res # "ok"
           /\ target_magnitude' = target_magnitude
           /\ ReferenceMagnitudeValues' = ReferenceMagnitudeValues)]_vars

\* C13: with a reference count of 1 and strictly positive flux,
\* differential_magnitude('average') after a successful extraction succeeds
\* and stores a reference magnitude series of exactly one entry per frame,
\* every entry 0.
C13_SingleReferenceMagnitudeZero ==
    [][(/\ phase = "Extracted" /\ ValidConfiguration
        /\ number_of_references = Some(1)
        /\ FluxValues # {} /\ \A v \in FluxValues : Positive(v)
        /\ Step("differential_magnitude") /\ last'.args.method = "average")
       => (/\ last'.res = "ok"
           /\ reference_magnitude' # Unset
           /\ Len(reference_magnitude'[1]) = Len(hdu_list)
           /\ \A i \in 1..Len(hdu_list) : reference_magnitude'[1][i] = Zero)]_vars

\* C14: with more than one reference, all of equal flux in every frame,
\* differential_magnitude('average') on freshly extracted flux succeeds, every
\* reference magnitude of every frame is 0, and the target magnitude is 0 in
\* every frame where the target flux equals the references' flux.
C14_EqualReferencesMagnitudeZero ==
    [][(/\ phase = "Extracted" /\ ValidConfiguration
        /\ Len(reference) > 1 /\ ReferencePerStar
        /\ Len(target) >= Len(hdu_list)
        /\ \A i \in 1..Len(hdu_list) : \A r \in 1..Len(reference) :
              heap[reference[r].id][i] = heap[reference[1].id][i]
        /\ Step("differential_magnitude") /\ last'.args.method = "average")
       => (/\ last'.res = "ok"
           /\ reference_magnitude' # Unset /\ target_magnitude' # Unset
           /\ \A i \in 1..Len(hdu_list) :
                /\ \A r \in 1..Len(reference) :
                      heap'[reference_magnitude'[1][r].id][i] = Zero
                /\ target[i] = heap[reference[1].id][i]
                      => target_magnitude'[1][i] = Zero)]_vars

\* C15: read_apertures called while the target, the reference, or both have
\* not been configured by a call that ran to its end is refused, and adds no
\* flux to the target or to any reference.
C15_ExtractUnconfiguredFails ==
    [][(phase = "Uninitialized" /\ Step("read_apertures"))
       => (/\ last'.res # "ok"
           /\ target' = target
           /\ ReferenceFluxValues' = ReferenceFluxValues)]_vars

\* The catalog is in ascending order of path, and the images and the time axis
\* follow it entry by entry.
CatalogSorted ==
    \A i \in 1..Len(fits_list) : \A j \in 1..Len(fits_list) :
        i < j => PathLess(fits_list[i], fits_list[j])

CatalogAligned ==
    /\ Len(hdu_list) = Len(fits_list) /\ Len(jd_axis) = Len(fits_list)
    /\ \A i \in 1..Len(fits_list) :
          hdu_list[i] = fits_open(fits_list[i]) /\ jd_axis[i] = JD(fits_list[i])

\* C16: when construction ends the catalog is sorted ascending by path and the
\* time axis holds the JD of each frame in that order, and no later call
\* changes the catalog's order or length or the time axis.
C16_CatalogSortedAndFixed ==
    /\ [](Constructed => (CatalogSorted /\ CatalogAligned))
    /\ [][UNCHANGED <<fits_list, hdu_list, jd_axis>>]_vars

\* A catalog of several frames, later extracted from and computed on.
C16_Witness ==
    /\ Len(fits_list) > 1
    /\ CatalogSorted /\ CatalogAligned
    /\ last.op = "differential_magnitude" /\ last.res = "ok"
    /\ Len(target) = Len(fits_list)

\* C17: constructing a Lightcurve from a path with no wildcard succeeds.
C17_DirectoryPathConstructs ==
    (last.op = "__init__" /\ ~HasWildcard(last.args.path)) => last.res = "ok"

\* C18: differential_magnitude('average') changes neither the target flux nor
\* any reference flux, with one reference and with several.
C18_ComputeOnlyReadsFlux ==
    [][(Step("differential_magnitude") /\ last'.args.method = "average")
       => (target' = target /\ ReferenceFluxValues' = ReferenceFluxValues)]_vars

\* C19: once magnitude series are stored, set_target, set_reference and
\* read_apertures change neither their values nor their lengths.
C19_MagnitudesChangeOnlyByCompute ==
    [][(/\ target_magnitude # Unset /\ reference_magnitude # Unset
        /\ Step("set_target") \/ Step("set_reference") \/ Step("read_apertures"))
       => (/\ target_magnitude' = target_magnitude
           /\ ReferenceMagnitudeValues' = ReferenceMagnitudeValues)]_vars

\* C20: while every aperture_photometry call returns, the target flux is
\* empty or holds exactly one value per frame.
C20_TargetFluxAllOrNothing ==
    Len(target) = 0 \/ Len(target) = Len(hdu_list)

====
